---------------------------- MODULE Spec2Model ----------------------------
(***************************************************************************)
(* Petrol pump management system (src/ppms.c): the fuel inventory, the six *)
(* pumps, the growable transaction ledger and the accumulators derived     *)
(* from it, driven by the menu handlers of main().                         *)
(*                                                                         *)
(* Numbers.  The C program keeps quantities and money in doubles.  Here a  *)
(* quantity is a whole number of units (litres or kg) and money is counted *)
(* in quarter-rupees, so the three prices 102.50, 88.75 and 75.00 are the  *)
(* integers 410, 355 and 300.  Every value the model handles is then a     *)
(* multiple of 1/4 far below 2^53: such values, their sums, differences    *)
(* and products are exact in IEEE-754 double arithmetic, and the amounts   *)
(* entered in amount mode are multiples of the price, so the quotient of   *)
(* line 367 is exact as well.  On the modelled inputs the integer          *)
(* arithmetic below is the program's arithmetic.  Inputs are finite: the   *)
(* "nan" and "inf" that scanf's %lf also converts, and values whose sums   *)
(* round, are not among them.                                              *)
(***************************************************************************)
EXTENDS Integers, Sequences, FiniteSets, TLC

(* ------------------------- Constants & types --------------------------- *)

INITIAL_TX_CAPACITY == 50
PUMP_COUNT == 6

\* Prices in quarter-rupees per unit (102.50, 88.75, 75.00).
PRICE_PETROL == 410
PRICE_DIESEL == 355
PRICE_CNG == 300

\* Opening stock in whole units.
OPEN_PETROL == 50000
OPEN_DIESEL == 50000
OPEN_CNG == 20000

\* The literal 50 of the fallback growth step, tx_capacity + 50.
FALLBACK_INCREMENT == 50

\* Size of Transaction.txn_id, the buffer generate_txn_id writes into.
TXN_ID_SIZE == 32

FUEL_PETROL == 0
FUEL_DIESEL == 1
FUEL_CNG == 2

PUMP_ACTIVE == 0
PUMP_INACTIVE == 1
PUMP_MAINT == 2

PAY_CASH == 0
PAY_CARD == 1
PAY_WALLET == 2

EXIT_SUCCESS == 0
EXIT_FAILURE == 1

FuelTypes == 0 .. 2
PumpIndexes == 0 .. (PUMP_COUNT - 1)
PaymentModes == 0 .. 2
Hours == 0 .. 23

(* ------------------------------ Bounds --------------------------------- *)

\* Sales committed in a run of Spec.
MaxTx == 2
\* Supply additions accepted in a run of Spec.
MaxSupply == 1
\* Sales committed in a run of SpecGrow.
MaxTxGrow == 510
\* Sales committed and supply additions accepted in a run of SpecOps.
MaxTxOps == 1
MaxSupplyOps == 2

(* ------------------------------ Helpers -------------------------------- *)

Min(a, b) == IF a <= b THEN a ELSE b

RECURSIVE SumOver(_, _)
\* The sum of f[i] for i in S, a finite set of integers, in increasing order.
SumOver(f, S) ==
    IF S = {} THEN 0
    ELSE LET m == CHOOSE x \in S : \A y \in S : x <= y
         IN  f[m] + SumOver(f, S \ {m})

RECURSIVE SumRange(_, _, _)
\* The sum of f[lo], ..., f[hi - 1], taken by halves.
SumRange(f, lo, hi) ==
    IF hi <= lo THEN 0
    ELSE IF hi = lo + 1 THEN f[lo]
    ELSE LET mid == (lo + hi) \div 2
         IN  SumRange(f, lo, mid) + SumRange(f, mid, hi)

\* The sum of f[0], ..., f[n - 1].
SumTo(f, n) == SumRange(f, 0, n)

\* An array of n elements indexed from 0, as C indexes it.
ArrayOf(n, v) == [i \in 0 .. (n - 1) |-> v]

(* ------------------------ The clock and localtime ---------------------- *)

\* What localtime() returns: a broken-down time, or NULL (valid = FALSE).
NULL_TM == [valid |-> FALSE, tm_year |-> 0, tm_mon |-> 0, tm_mday |-> 0, tm_hour |-> 0]

\* The readings of time(NULL) the model draws from: 0 is a second of
\* 2024-12-31 23h local time, 1 a second of 2025-01-01 00h, and 2 a reading
\* localtime() cannot break down (it returns NULL).
TimeValues == 0 .. 2

localtime(t) ==
    CASE t = 0 -> [valid |-> TRUE, tm_year |-> 124, tm_mon |-> 11, tm_mday |-> 31, tm_hour |-> 23]
      [] t = 1 -> [valid |-> TRUE, tm_year |-> 125, tm_mon |-> 0, tm_mday |-> 1, tm_hour |-> 0]
      [] OTHER -> NULL_TM

(* --------------------------- Text formatting --------------------------- *)

DigitChars == <<"0", "1", "2", "3", "4", "5", "6", "7", "8", "9">>

RECURSIVE Decimal(_)
\* The decimal digits of n >= 0, most significant first (printf %u, %d, %lu).
Decimal(n) ==
    IF n < 10 THEN <<DigitChars[n + 1]>>
    ELSE Decimal(n \div 10) \o <<DigitChars[(n % 10) + 1]>>

RECURSIVE ZeroPad(_, _)
\* printf's %0<width>: zeros on the left up to width, never a cut.
ZeroPad(s, width) == IF Len(s) >= width THEN s ELSE ZeroPad(<<"0">> \o s, width)

\* snprintf(out, outsz, ...): at most outsz - 1 characters are stored.
Snprintf(s, outsz) == SubSeq(s, 1, Min(Len(s), outsz - 1))

\* generate_txn_id's two formats, for the broken-down time lt (or NULL) and
\* the sequence number seq the call has just advanced txn_sequence to.
FormatTxnId(lt, seq) ==
    IF lt.valid
    THEN Snprintf(<<"T", "X", "N">>
                  \o ZeroPad(Decimal((lt.tm_year + 1900) % 10000), 4)
                  \o ZeroPad(Decimal(lt.tm_mon + 1), 2)
                  \o ZeroPad(Decimal(lt.tm_mday), 2)
                  \o ZeroPad(Decimal(lt.tm_hour), 2)
                  \o ZeroPad(Decimal(seq), 5), TXN_ID_SIZE)
    ELSE Snprintf(<<"T", "X", "N", "0", "0", "0", "0", "0", "0", "0", "0", "0">>
                  \o ZeroPad(Decimal(seq), 5), TXN_ID_SIZE)

\* NextSequence without the increment.
NextSequence_NotAdvanced(seq) == seq

\* Line 152: generate_txn_id advances the sequence before it formats the id.
NextSequence(seq) == seq + 1

\* generate_txn_id formatting the sequence number it found, not the one it
\* advanced to.
generate_txn_id_NumberBeforeAdvance(now, sequence) == FormatTxnId(localtime(now), sequence)

\* generate_txn_id when the clock reads now and txn_sequence is sequence: the
\* id it writes (it leaves txn_sequence at NextSequence(sequence)).
generate_txn_id(now, sequence) == FormatTxnId(localtime(now), NextSequence(sequence))

(* ------------------------------ Records -------------------------------- *)

\* A Transaction slot as calloc and memset leave it.
ZeroTx ==
    [txn_id |-> <<>>, timestamp |-> 0, pump_id |-> 0, fuel_type |-> 0,
     vehicle_type |-> 0, quantity |-> 0, amount |-> 0, payment_mode |-> 0]

\* A Transaction slot of storage realloc has added and nothing has written.
IndeterminateTx ==
    [txn_id |-> <<"?">>, timestamp |-> -1, pump_id |-> -1, fuel_type |-> -1,
     vehicle_type |-> -1, quantity |-> -1, amount |-> -1, payment_mode |-> -1]

\* A value read by scanf: n is scanf's return value, v the value stored.
Scanned(v) == [n |-> 1, v |-> v]
NotScanned == [n |-> 0, v |-> 0]

(* ---------------------------- System state ----------------------------- *)

VARIABLES
    fuels,                \* Fuel fuels[3]
    pumps,                \* Pump pumps[PUMP_COUNT]
    transactions,         \* the block transactions points to (<<>> when NULL)
    tx_capacity,
    tx_count,
    fuel_wise_quantity,
    fuel_wise_amount,
    payment_mode_amount,
    hour_quantity,
    hour_amount,
    txn_sequence,
    running,              \* FALSE once the process has exited
    exit_status,          \* the status it exited with
    out,                  \* what the last handler printed: <<handler, message, rows>>
    appended,             \* history: every record ever appended, in order
    accepted,             \* history: the input of every sale that passed the checks
    deducted,             \* history: per fuel, <<number, total quantity>> of stock deductions
    supplied              \* history: per fuel, <<number, total quantity>> of supply added

store == <<transactions, tx_capacity, tx_count>>
aggregates == <<fuel_wise_quantity, fuel_wise_amount, payment_mode_amount,
                hour_quantity, hour_amount>>
history == <<appended, accepted, deducted, supplied>>
\* Everything a handler can change but its own output.
core == <<fuels, pumps, store, aggregates, txn_sequence, running, exit_status>>
vars == <<core, out, history>>

(* --------------------------- initialize_system ------------------------- *)

InitFuel(t, price, stock) ==
    [type |-> t, price |-> price, opening_stock |-> stock,
     current_stock |-> stock, closing_stock |-> stock]

InitPump(i) ==
    [pump_id |-> i + 1,
     fuel_type |-> IF i < 2 THEN FUEL_PETROL ELSE IF i < 4 THEN FUEL_DIESEL ELSE FUEL_CNG,
     status |-> PUMP_ACTIVE,
     transactions_count |-> 0, total_quantity |-> 0, total_amount |-> 0]

Init ==
    /\ fuels = [f \in FuelTypes |->
                  CASE f = FUEL_PETROL -> InitFuel(FUEL_PETROL, PRICE_PETROL, OPEN_PETROL)
                    [] f = FUEL_DIESEL -> InitFuel(FUEL_DIESEL, PRICE_DIESEL, OPEN_DIESEL)
                    [] OTHER -> InitFuel(FUEL_CNG, PRICE_CNG, OPEN_CNG)]
    /\ pumps = [i \in PumpIndexes |-> InitPump(i)]
    /\ tx_capacity = INITIAL_TX_CAPACITY
    /\ transactions = ArrayOf(INITIAL_TX_CAPACITY, ZeroTx)
    /\ tx_count = 0
    /\ fuel_wise_quantity = [f \in FuelTypes |-> 0]
    /\ fuel_wise_amount = [f \in FuelTypes |-> 0]
    /\ payment_mode_amount = [m \in PaymentModes |-> 0]
    /\ hour_quantity = [h \in Hours |-> 0]
    /\ hour_amount = [h \in Hours |-> 0]
    /\ txn_sequence = 0
    /\ running = TRUE
    /\ exit_status = EXIT_SUCCESS
    /\ out = <<"main", "", <<>>>>
    /\ appended = <<>>
    /\ accepted = <<>>
    /\ deducted = [f \in FuelTypes |-> <<0, 0>>]
    /\ supplied = [f \in FuelTypes |-> <<0, 0>>]

(* ----------------------------- shutdown_system -------------------------- *)

\* The ledger store after shutdown_system: <<transactions, tx_capacity, tx_count>>.
shutdown_system == <<<<>>, 0, 0>>

(* --------------------------- ensure_tx_capacity ------------------------ *)

\* realloc(block, n) when it succeeds: the old contents up to the smaller of the
\* two sizes, and indeterminate storage after them.
Realloc(block, old_n, n) ==
    [i \in 0 .. (n - 1) |-> IF i < old_n THEN block[i] ELSE IndeterminateTx]

\* MemsetZero clearing the block from its first slot.
MemsetZero_FromStart(block, from, to) ==
    [i \in DOMAIN block |-> IF i < to THEN ZeroTx ELSE block[i]]

\* memset(block + from, 0, (to - from) * sizeof(Transaction)).
MemsetZero(block, from, to) ==
    [i \in DOMAIN block |-> IF i >= from /\ i < to THEN ZeroTx ELSE block[i]]

\* The outcomes of the two realloc calls: TRUE when the call returns a block
\* (the second call is made only when the first has failed).
ReallocOutcomes ==
    { [doubling |-> TRUE, fallback |-> TRUE],
      [doubling |-> FALSE, fallback |-> TRUE],
      [doubling |-> FALSE, fallback |-> FALSE] }

\* The outcomes to draw from in a state: realloc is called only on a full store.
ReallocOutcomesAt(count, cap) ==
    IF count < cap THEN {[doubling |-> TRUE, fallback |-> TRUE]} ELSE ReallocOutcomes

\* NewCapacity growing by the fixed increment whichever realloc succeeded.
NewCapacity_AlwaysIncrement(cap, ra) ==
    IF ra.doubling \/ ra.fallback THEN cap + FALLBACK_INCREMENT ELSE 0

\* The capacity ensure_tx_capacity settles on, or 0 when both reallocs fail.
NewCapacity(cap, ra) ==
    IF ra.doubling THEN cap * 2
    ELSE IF ra.fallback THEN cap + FALLBACK_INCREMENT
    ELSE 0

\* ensure_tx_capacity returning at once on a store that is exactly full.
ensure_tx_capacity_FullIsEnough(block, cap, count, ra) ==
    IF count <= cap
    THEN [alive |-> TRUE, block |-> block, cap |-> cap]
    ELSE LET new_capacity == NewCapacity(cap, ra)
         IN  IF ~ra.doubling /\ ~ra.fallback
             THEN [alive |-> FALSE, block |-> shutdown_system[1], cap |-> shutdown_system[2]]
             ELSE [alive |-> TRUE,
                   block |-> MemsetZero(Realloc(block, cap, new_capacity), cap, new_capacity),
                   cap |-> new_capacity]

\* ensure_tx_capacity under the realloc outcomes ra: the block and capacity it
\* leaves, and whether the process is still alive (it exits when both fail).
ensure_tx_capacity(block, cap, count, ra) ==
    IF count < cap
    THEN [alive |-> TRUE, block |-> block, cap |-> cap]
    ELSE LET new_capacity == NewCapacity(cap, ra)
         IN  IF ~ra.doubling /\ ~ra.fallback
             THEN [alive |-> FALSE, block |-> shutdown_system[1], cap |-> shutdown_system[2]]
             ELSE [alive |-> TRUE,
                   block |-> MemsetZero(Realloc(block, cap, new_capacity), cap, new_capacity),
                   cap |-> new_capacity]

(* ----------------------------- pump_index_by_id ------------------------ *)

pump_index_by_id(ps, pump_id) ==
    IF \E i \in PumpIndexes : ps[i].pump_id = pump_id
    THEN CHOOSE i \in PumpIndexes :
            /\ ps[i].pump_id = pump_id
            /\ \A j \in PumpIndexes : ps[j].pump_id = pump_id => i <= j
    ELSE -1

(* ---------------------------- record_transaction ----------------------- *)

\* transactions[tx_count] = *tx.
StoreTx(block, count, tx) == [block EXCEPT ![count] = tx]

\* UpdatePumpStats with the quantity added where the amount belongs.
UpdatePumpStats_QuantityForAmount(ps, tx) ==
    LET pidx == pump_index_by_id(ps, tx.pump_id)
    IN  IF pidx >= 0
        THEN [ps EXCEPT ![pidx].transactions_count = @ + 1,
                        ![pidx].total_quantity = @ + tx.quantity,
                        ![pidx].total_amount = @ + tx.quantity]
        ELSE ps

\* Lines 278-284: the pump's three counters.
UpdatePumpStats(ps, tx) ==
    LET pidx == pump_index_by_id(ps, tx.pump_id)
    IN  IF pidx >= 0
        THEN [ps EXCEPT ![pidx].transactions_count = @ + 1,
                        ![pidx].total_quantity = @ + tx.quantity,
                        ![pidx].total_amount = @ + tx.amount]
        ELSE ps

\* Lines 287-288.
UpdateFuelWiseQuantity(acc, tx) == [acc EXCEPT ![tx.fuel_type] = @ + tx.quantity]
UpdateFuelWiseAmount(acc, tx) == [acc EXCEPT ![tx.fuel_type] = @ + tx.amount]

\* UpdatePaymentModeAmount booking every sale as cash.
UpdatePaymentModeAmount_AlwaysCash(acc, tx) == [acc EXCEPT ![PAY_CASH] = @ + tx.amount]

\* Line 291.
UpdatePaymentModeAmount(acc, tx) == [acc EXCEPT ![tx.payment_mode] = @ + tx.amount]

\* UpdateHourQuantity counting a record without a local hour under hour 0.
UpdateHourQuantity_MidnightWhenUnknown(acc, tx) ==
    LET lt == localtime(tx.timestamp)
    IN  [acc EXCEPT ![IF lt.valid THEN lt.tm_hour ELSE 0] = @ + tx.quantity]

\* Lines 294-299: the hour bucket of the record's own timestamp, skipped when
\* localtime returns NULL.
UpdateHourQuantity(acc, tx) ==
    LET lt == localtime(tx.timestamp)
    IN  IF lt.valid THEN [acc EXCEPT ![lt.tm_hour] = @ + tx.quantity] ELSE acc

\* UpdateHourAmount with the quantity added where the amount belongs.
UpdateHourAmount_AddsQuantity(acc, tx) ==
    LET lt == localtime(tx.timestamp)
    IN  IF lt.valid THEN [acc EXCEPT ![lt.tm_hour] = @ + tx.quantity] ELSE acc

UpdateHourAmount(acc, tx) ==
    LET lt == localtime(tx.timestamp)
    IN  IF lt.valid THEN [acc EXCEPT ![lt.tm_hour] = @ + tx.amount] ELSE acc

\* record_transaction(tx) under the realloc outcomes ra: the store grown if it
\* is full, the record stored at transactions[tx_count] and every accumulator
\* updated from it; or, when the store cannot grow, shutdown_system and
\* exit(EXIT_FAILURE) before anything is stored or updated.
record_transaction(tx, ra) ==
    LET grown == ensure_tx_capacity(transactions, tx_capacity, tx_count, ra)
    IN  IF grown.alive
        THEN /\ transactions' = StoreTx(grown.block, tx_count, tx)
             /\ tx_capacity' = grown.cap
             /\ tx_count' = tx_count + 1
             /\ pumps' = UpdatePumpStats(pumps, tx)
             /\ fuel_wise_quantity' = UpdateFuelWiseQuantity(fuel_wise_quantity, tx)
             /\ fuel_wise_amount' = UpdateFuelWiseAmount(fuel_wise_amount, tx)
             /\ payment_mode_amount' = UpdatePaymentModeAmount(payment_mode_amount, tx)
             /\ hour_quantity' = UpdateHourQuantity(hour_quantity, tx)
             /\ hour_amount' = UpdateHourAmount(hour_amount, tx)
             /\ appended' = Append(appended, tx)
             /\ UNCHANGED <<running, exit_status>>
        ELSE /\ transactions' = shutdown_system[1]
             /\ tx_capacity' = shutdown_system[2]
             /\ tx_count' = shutdown_system[3]
             /\ running' = FALSE
             /\ exit_status' = EXIT_FAILURE
             /\ UNCHANGED <<pumps, aggregates, appended>>

(* ------------------------------ process_sale --------------------------- *)

\* PumpNotActive that lets a pump under maintenance through.
PumpNotActive_OnlyInactive(p) == p.status = PUMP_INACTIVE

\* Line 328: the status check.
PumpNotActive(p) == p.status # PUMP_ACTIVE

\* InsufficientStock turning down a sale for the whole stock as well.
InsufficientStock_AtStock(qty, stock) == qty >= stock

\* Line 371: the stock check.
InsufficientStock(qty, stock) == qty > stock

\* DeductStock taking the quantity twice.
DeductStock_Twice(fs, ftype, qty) == [fs EXCEPT ![ftype].current_stock = @ - qty - qty]

\* DeductStock taking every sale from the petrol stock.
DeductStock_AlwaysPetrol(fs, ftype, qty) == [fs EXCEPT ![FUEL_PETROL].current_stock = @ - qty]

\* Line 399: the deduction.
DeductStock(fs, ftype, qty) == [fs EXCEPT ![ftype].current_stock = @ - qty]

\* AmountFor with the division of amount mode.
AmountFor_Divides(qty, unit_price) == qty \div unit_price

\* Lines 359 and 367: the amount billed for a quantity, the quantity bought
\* for an amount (exact on the modelled inputs, see the note on numbers).
AmountFor(qty, unit_price) == qty * unit_price
QuantityFor(amt, unit_price) == amt \div unit_price

\* MakeTx recording the vehicle selector as the fuel type.
MakeTx_FuelFromVehicle(id, now, pump_id, ftype, vchoice, qty, amt, paychoice) ==
    [txn_id |-> id, timestamp |-> now, pump_id |-> pump_id, fuel_type |-> vchoice,
     vehicle_type |-> vchoice, quantity |-> qty, amount |-> amt,
     payment_mode |-> paychoice]

\* Lines 387-396: the Transaction built for a validated sale.
MakeTx(id, now, pump_id, ftype, vchoice, qty, amt, paychoice) ==
    [txn_id |-> id, timestamp |-> now, pump_id |-> pump_id, fuel_type |-> ftype,
     vehicle_type |-> vchoice, quantity |-> qty, amount |-> amt,
     payment_mode |-> paychoice]

\* Return after a sequence number has already been drawn for the attempt.
Return_SequenceDrawn(handler, msg) ==
    /\ out' = <<handler, msg, <<>>>>
    /\ txn_sequence' = txn_sequence + 1
    /\ UNCHANGED <<fuels, pumps, store, aggregates, running, exit_status, history>>

\* A handler that returns early: it has printed msg and changed nothing.
Return(handler, msg) ==
    /\ out' = <<handler, msg, <<>>>>
    /\ UNCHANGED <<core, history>>

\* The sale handler on the input in (the values scanf reads, in order, and the
\* two readings of the clock) under the realloc outcomes ra.
process_sale(in, ra) ==
    /\ running
    /\ LET pump_id == in.pump_id.v
           pidx == pump_index_by_id(pumps, pump_id)
       IN
       IF in.pump_id.n # 1 THEN Return("process_sale", "Invalid input.")
       ELSE IF pidx < 0 THEN Return("process_sale", "Invalid pump id.")
       ELSE IF PumpNotActive(pumps[pidx])
            THEN Return("process_sale", "Selected pump is not active.")
       ELSE IF in.vchoice.n # 1 \/ in.vchoice.v < 0 \/ in.vchoice.v > 2
            THEN Return("process_sale", "Invalid.")
       ELSE
       LET ftype == pumps[pidx].fuel_type
           unit_price == fuels[ftype].price
       IN
       IF in.mode.n # 1 \/ (in.mode.v # 0 /\ in.mode.v # 1)
            THEN Return("process_sale", "Invalid.")
       ELSE IF in.mode.v = 0 /\ (in.value.n # 1 \/ in.value.v <= 0)
            THEN Return("process_sale", "Invalid quantity.")
       ELSE IF in.mode.v = 1 /\ (in.value.n # 1 \/ in.value.v <= 0)
            THEN Return("process_sale", "Invalid amount.")
       ELSE
       LET qty == IF in.mode.v = 0 THEN in.value.v ELSE QuantityFor(in.value.v, unit_price)
           amt == IF in.mode.v = 0 THEN AmountFor(in.value.v, unit_price) ELSE in.value.v
       IN
       IF InsufficientStock(qty, fuels[ftype].current_stock)
            THEN Return("process_sale", "Insufficient stock.")
       ELSE IF in.paychoice.n # 1 \/ in.paychoice.v < 0 \/ in.paychoice.v > 2
            THEN Return("process_sale", "Invalid.")
       ELSE
       LET tx == MakeTx(generate_txn_id(in.now_id, txn_sequence), in.now_ts, pump_id,
                        ftype, in.vchoice.v, qty, amt, in.paychoice.v)
       IN
       /\ txn_sequence' = NextSequence(txn_sequence)
       /\ fuels' = DeductStock(fuels, ftype, qty)
       /\ record_transaction(tx, ra)
       /\ out' = IF running'
                 THEN <<"process_sale", "FUEL RECEIPT", <<tx>>>>
                 ELSE <<"process_sale",
                        "Critical: transaction storage expansion failed. Exiting.", <<>>>>
       /\ deducted' = [deducted EXCEPT ![ftype] = <<@[1] + 1, @[2] + qty>>]
       /\ accepted' = Append(accepted, in)
       /\ UNCHANGED supplied

(* ------------------------------- add_supply ---------------------------- *)

\* AddStock filling the stock no higher than the opening stock.
AddStock_UpToOpening(fs, f, amt) ==
    [fs EXCEPT ![f].current_stock = Min(@ + amt, fs[f].opening_stock)]

\* Line 430.
AddStock(fs, f, amt) == [fs EXCEPT ![f].current_stock = @ + amt]

add_supply(f, amt) ==
    /\ running
    /\ IF f.n # 1 \/ f.v < 0 \/ f.v > 2 THEN Return("add_supply", "Invalid.")
       ELSE IF amt.n # 1 \/ amt.v <= 0 THEN Return("add_supply", "Invalid quantity.")
       ELSE /\ fuels' = AddStock(fuels, f.v, amt.v)
            /\ supplied' = [supplied EXCEPT ![f.v] = <<@[1] + 1, @[2] + amt.v>>]
            /\ out' = <<"add_supply", "Supply added.", <<>>>>
            /\ UNCHANGED <<pumps, store, aggregates, txn_sequence, running, exit_status,
                           appended, accepted, deducted>>

(* --------------------------- change_pump_status ------------------------ *)

\* SetStatus keeping a pump under maintenance where it is.
SetStatus_NotOutOfMaintenance(ps, idx, s) ==
    [ps EXCEPT ![idx].status = IF @ = PUMP_MAINT THEN @ ELSE s]

\* SetStatus clearing the counters of a pump taken out of service.
SetStatus_ClearsCounters(ps, idx, s) ==
    [ps EXCEPT ![idx].status = s,
               ![idx].transactions_count = IF s = PUMP_ACTIVE THEN @ ELSE 0,
               ![idx].total_quantity = IF s = PUMP_ACTIVE THEN @ ELSE 0,
               ![idx].total_amount = IF s = PUMP_ACTIVE THEN @ ELSE 0]

\* Line 453.
SetStatus(ps, idx, s) == [ps EXCEPT ![idx].status = s]

change_pump_status(pid, s) ==
    /\ running
    /\ LET idx == pump_index_by_id(pumps, pid.v)
       IN  IF pid.n # 1 THEN Return("change_pump_status", "Invalid.")
           ELSE IF idx < 0 THEN Return("change_pump_status", "Invalid pump id.")
           ELSE IF s.n # 1 \/ s.v < 0 \/ s.v > 2
                THEN Return("change_pump_status", "Invalid.")
           ELSE /\ pumps' = SetStatus(pumps, idx, s.v)
                /\ out' = <<"change_pump_status", "Pump status set.", <<>>>>
                /\ UNCHANGED <<fuels, store, aggregates, txn_sequence, running,
                               exit_status, history>>

(* -------------------------- generate_daily_report ---------------------- *)

\* SnapshotClosing keeping a close that an earlier report has taken.
SnapshotClosing_KeepsEarlierClose(fs) ==
    [i \in DOMAIN fs |->
       [fs[i] EXCEPT !.closing_stock =
          IF @ # fs[i].opening_stock THEN @ ELSE fs[i].current_stock]]

\* SnapshotClosing opening the next day at the close as well.
SnapshotClosing_RollsOpening(fs) ==
    [i \in DOMAIN fs |-> [fs[i] EXCEPT !.closing_stock = fs[i].current_stock,
                                       !.opening_stock = fs[i].current_stock]]

\* Line 508, for every fuel.
SnapshotClosing(fs) == [i \in DOMAIN fs |-> [fs[i] EXCEPT !.closing_stock = fs[i].current_stock]]

generate_daily_report ==
    /\ running
    /\ fuels' = SnapshotClosing(fuels)
    /\ out' = <<"generate_daily_report", "DAILY REPORT", <<>>>>
    /\ UNCHANGED <<pumps, store, aggregates, txn_sequence, running, exit_status, history>>

(* ---------------------------- list_transactions ------------------------ *)

\* What a row of the table shows of a record (lines 542-548).
ListedRow(tx) ==
    [txn_id |-> tx.txn_id, timestamp |-> tx.timestamp, pump_id |-> tx.pump_id,
     quantity |-> tx.quantity, amount |-> tx.amount, payment_mode |-> tx.payment_mode]

\* ListedRows from the first record on.
ListedRows_OldestFirst(block, count) == [k \in 1 .. count |-> ListedRow(block[k - 1])]

\* The rows of the table in the order the loop of lines 539-549 prints them:
\* row k (from 1) is transactions[count - k].
ListedRows(block, count) == [k \in 1 .. count |-> ListedRow(block[count - k])]

list_transactions ==
    /\ running
    /\ out' = IF tx_count = 0
              THEN <<"list_transactions", "No transactions yet.", <<>>>>
              ELSE <<"list_transactions", "Transactions (most recent first)",
                     ListedRows(transactions, tx_count)>>
    /\ UNCHANGED <<core, history>>

(* -------------------------- main: choice 0 (Exit) ---------------------- *)

exit_program ==
    /\ running
    /\ transactions' = shutdown_system[1]
    /\ tx_capacity' = shutdown_system[2]
    /\ tx_count' = shutdown_system[3]
    /\ running' = FALSE
    /\ exit_status' = EXIT_SUCCESS
    /\ out' = <<"main", "Exiting... freeing memory and shutting down.", <<>>>>
    /\ UNCHANGED <<fuels, pumps, aggregates, txn_sequence, history>>

(* -------------------------------- Inputs ------------------------------- *)

\* What one run of process_sale reads: the five values scanf is asked for and
\* the two readings of the clock (generate_txn_id's, then the timestamp's).
SaleInput(pump_id, vchoice, mode, value, paychoice, now_id, now_ts) ==
    [pump_id |-> pump_id, vchoice |-> vchoice, mode |-> mode, value |-> value,
     paychoice |-> paychoice, now_id |-> now_id, now_ts |-> now_ts]

\* Sales that pass every check on a fresh system: both petrol pumps, a diesel
\* pump in amount mode (an amount that buys a whole number of litres) and the
\* last CNG pump for the whole opening stock; every vehicle type and payment
\* mode; the clock in either hour, moving on or back between the two
\* readings, and localtime failing for the id or for the timestamp.
ValidSaleInputs ==
    { SaleInput(Scanned(1), Scanned(0), Scanned(0), Scanned(100), Scanned(PAY_CASH), 0, 0),
      SaleInput(Scanned(2), Scanned(1), Scanned(0), Scanned(100), Scanned(PAY_CARD), 2, 1),
      SaleInput(Scanned(3), Scanned(2), Scanned(1), Scanned(2460 * PRICE_DIESEL), Scanned(PAY_WALLET), 1, 2),
      SaleInput(Scanned(6), Scanned(1), Scanned(0), Scanned(OPEN_CNG), Scanned(PAY_CASH), 1, 0) }

\* Sales one of the checks turns down, whatever the state: one or two inputs
\* for each early return of process_sale.
InvalidSaleInputs ==
    { SaleInput(NotScanned, Scanned(0), Scanned(0), Scanned(100), Scanned(PAY_CASH), 0, 0),
      SaleInput(Scanned(0), Scanned(0), Scanned(0), Scanned(100), Scanned(PAY_CASH), 0, 0),
      SaleInput(Scanned(7), Scanned(0), Scanned(0), Scanned(100), Scanned(PAY_CASH), 0, 0),
      SaleInput(Scanned(1), Scanned(-1), Scanned(0), Scanned(100), Scanned(PAY_CASH), 0, 0),
      SaleInput(Scanned(2), Scanned(3), Scanned(0), Scanned(100), Scanned(PAY_CASH), 0, 0),
      SaleInput(Scanned(3), Scanned(0), Scanned(2), Scanned(100), Scanned(PAY_CASH), 0, 0),
      SaleInput(Scanned(1), Scanned(0), Scanned(0), NotScanned, Scanned(PAY_CASH), 0, 0),
      SaleInput(Scanned(6), Scanned(0), Scanned(0), Scanned(0), Scanned(PAY_CASH), 0, 0),
      SaleInput(Scanned(1), Scanned(0), Scanned(1), Scanned(-410), Scanned(PAY_CASH), 0, 0),
      SaleInput(Scanned(1), Scanned(0), Scanned(0), Scanned(OPEN_PETROL + 1), Scanned(PAY_CASH), 0, 0),
      SaleInput(Scanned(1), Scanned(0), Scanned(0), Scanned(100), Scanned(-1), 0, 0),
      SaleInput(Scanned(6), Scanned(0), Scanned(0), Scanned(100), Scanned(3), 0, 0) }

SaleInputs == ValidSaleInputs \cup InvalidSaleInputs

\* What add_supply reads: the fuel selector and the quantity.
SupplyInputs ==
    { <<NotScanned, NotScanned>>, <<Scanned(-1), Scanned(OPEN_CNG)>>,
      <<Scanned(3), Scanned(OPEN_CNG)>>, <<Scanned(FUEL_CNG), NotScanned>>,
      <<Scanned(FUEL_CNG), Scanned(0)>>, <<Scanned(FUEL_CNG), Scanned(-500)>>,
      <<Scanned(FUEL_CNG), Scanned(OPEN_CNG)>> }

\* What change_pump_status reads: the pump id and the status.
StatusInputs ==
    { <<NotScanned, NotScanned>>, <<Scanned(0), Scanned(PUMP_ACTIVE)>>,
      <<Scanned(7), Scanned(PUMP_MAINT)>>, <<Scanned(1), NotScanned>>,
      <<Scanned(1), Scanned(-1)>>, <<Scanned(1), Scanned(3)>>,
      <<Scanned(1), Scanned(PUMP_ACTIVE)>>, <<Scanned(1), Scanned(PUMP_INACTIVE)>>,
      <<Scanned(1), Scanned(PUMP_MAINT)>> }

\* The number of supply additions accepted so far.
SuppliesAccepted == SumOver([f \in FuelTypes |-> supplied[f][1]], FuelTypes)

(* ------------------------- main: the menu loop ------------------------- *)

Next ==
    \/ \E in \in SaleInputs, ra \in ReallocOutcomesAt(tx_count, tx_capacity) :
          process_sale(in, ra) /\ Len(appended') <= MaxTx
    \/ \E in \in SupplyInputs : add_supply(in[1], in[2]) /\ SuppliesAccepted' <= MaxSupply
    \/ \E in \in StatusInputs : change_pump_status(in[1], in[2])
    \/ generate_daily_report
    \/ list_transactions
    \/ exit_program

Spec == Init /\ [][Next]_vars

(* ------------------- Long runs: the growth of the store ---------------- *)

\* One sale that passes every check and one that is turned down: a long run
\* differs from another only in how its reallocs went.
GrowSaleInputs ==
    { SaleInput(Scanned(1), Scanned(0), Scanned(0), Scanned(50), Scanned(PAY_CASH), 0, 0),
      SaleInput(Scanned(7), Scanned(0), Scanned(0), Scanned(50), Scanned(PAY_CASH), 0, 0) }

NextGrow ==
    \/ \E in \in GrowSaleInputs, ra \in ReallocOutcomesAt(tx_count, tx_capacity) :
          process_sale(in, ra) /\ Len(appended') <= MaxTxGrow
    \/ exit_program

SpecGrow == Init /\ [][NextGrow]_vars

(* ------ Short runs: supplies, status changes and reports in detail ------ *)

\* A sale that passes every check and one that is turned down.
OpsSaleInputs ==
    { SaleInput(Scanned(1), Scanned(0), Scanned(0), Scanned(100), Scanned(PAY_CASH), 0, 0),
      SaleInput(Scanned(7), Scanned(0), Scanned(0), Scanned(100), Scanned(PAY_CASH), 0, 0) }

\* Supplies for each of the three fuels, and every input add_supply turns down.
OpsSupplyInputs ==
    { <<Scanned(FUEL_PETROL), Scanned(500)>>, <<Scanned(FUEL_DIESEL), Scanned(500)>>,
      <<Scanned(FUEL_CNG), Scanned(OPEN_CNG)>> }
    \cup { in \in SupplyInputs : ~(in[1].n = 1 /\ in[1].v \in FuelTypes /\ in[2].n = 1 /\ in[2].v > 0) }

\* Every status for the first and the last pump, and every input
\* change_pump_status turns down.
OpsStatusInputs ==
    { <<Scanned(pid), Scanned(st)>> : pid \in {1, PUMP_COUNT},
                                     st \in {PUMP_ACTIVE, PUMP_INACTIVE, PUMP_MAINT} }
    \cup { <<NotScanned, NotScanned>>, <<Scanned(0), Scanned(PUMP_ACTIVE)>>,
           <<Scanned(PUMP_COUNT + 1), Scanned(PUMP_MAINT)>>, <<Scanned(1), NotScanned>>,
           <<Scanned(1), Scanned(-1)>>, <<Scanned(PUMP_COUNT), Scanned(3)>> }

NextOps ==
    \/ \E in \in OpsSaleInputs, ra \in ReallocOutcomesAt(tx_count, tx_capacity) :
          process_sale(in, ra) /\ Len(appended') <= MaxTxOps
    \/ \E in \in OpsSupplyInputs : add_supply(in[1], in[2]) /\ SuppliesAccepted' <= MaxSupplyOps
    \/ \E in \in OpsStatusInputs : change_pump_status(in[1], in[2])
    \/ generate_daily_report

SpecOps == Init /\ [][NextOps]_vars

(* ======================= Properties of the system ====================== *)

\* The records in the ledger: transactions[0 .. tx_count - 1].
LedgerIndexes == 0 .. (tx_count - 1)

\* Sums over the ledger, scanning it from the first record.
LedgerAmount == SumTo([i \in LedgerIndexes |-> transactions[i].amount], tx_count)
LedgerQuantity == SumTo([i \in LedgerIndexes |-> transactions[i].quantity], tx_count)
LedgerQuantityOfFuel(f) ==
    SumTo([i \in LedgerIndexes |->
             IF transactions[i].fuel_type = f THEN transactions[i].quantity ELSE 0], tx_count)

SaleRejections ==
    { "Invalid input.", "Invalid pump id.", "Selected pump is not active.", "Invalid.",
      "Invalid quantity.", "Invalid amount.", "Insufficient stock." }

(* C1: while the process runs, after any sequence of sales (accepted or      *)
(* rejected), supply additions, status changes and reports, the sum of       *)
(* fuel_wise_amount over the three fuels equals the sum of total_amount over *)
(* the six pumps, which equals the sum of amount over the ledger's records.  *)
C1_RevenueSumsAgree ==
    running =>
        /\ SumOver(fuel_wise_amount, FuelTypes)
             = SumOver([i \in PumpIndexes |-> pumps[i].total_amount], PumpIndexes)
        /\ SumOver([i \in PumpIndexes |-> pumps[i].total_amount], PumpIndexes) = LedgerAmount

\* Two sales on different fuels and pumps, then a sale turned down for stock.
C1_Witness ==
    /\ running
    /\ tx_count = 2
    /\ transactions[0].fuel_type # transactions[1].fuel_type
    /\ transactions[0].pump_id # transactions[1].pump_id
    /\ LedgerAmount = transactions[0].amount + transactions[1].amount
    /\ transactions[0].amount > 0 /\ transactions[1].amount > 0
    /\ out = <<"process_sale", "Insufficient stock.", <<>>>>

(* C2: while the process runs, for every fuel, current_stock equals          *)
(* opening_stock minus the quantities of the ledger's records on that fuel   *)
(* plus the supply additions accepted on that fuel; current_stock is never   *)
(* negative, in any state.                                                   *)
C2_StockBalance ==
    \A f \in FuelTypes :
        /\ fuels[f].current_stock >= 0
        /\ running =>
             fuels[f].current_stock
               = fuels[f].opening_stock - LedgerQuantityOfFuel(f) + supplied[f][2]

\* The CNG stock sold out, supplied again and sold out again.
C2_Witness ==
    /\ running
    /\ fuels[FUEL_CNG].current_stock = 0
    /\ supplied[FUEL_CNG] = <<1, OPEN_CNG>>
    /\ LedgerQuantityOfFuel(FUEL_CNG) = 2 * OPEN_CNG

(* C3: a sale attempt turned down for a recoverable reason (input not read,  *)
(* unknown pump id, pump not Active, bad vehicle, mode or payment selector,  *)
(* non-positive quantity or amount, quantity above the stock) leaves the     *)
(* ledger, every stock, every pump and every accumulator as they were.       *)
C3_RejectedSaleChangesNothing ==
    [][ (out'[1] = "process_sale" /\ out'[2] \in SaleRejections)
          => UNCHANGED <<core, history>> ]_vars

\* A sale turned down for stock after a sale and a supply addition went through.
C3_Witness ==
    /\ out = <<"process_sale", "Insufficient stock.", <<>>>>
    /\ tx_count = 1
    /\ fuels[FUEL_PETROL].current_stock < OPEN_PETROL
    /\ supplied[FUEL_CNG][1] = 1

(* C4: any two transactions created in one run carry different identifiers:  *)
(* in the same clock hour, with the clock moved back between them, and with  *)
(* local time unavailable for one or both (the fallback format).             *)
C4_TxnIdsDistinct ==
    /\ \A i, j \in 1 .. Len(appended) :
          i # j => appended[i].txn_id # appended[j].txn_id
    /\ \A i \in 1 .. Len(appended) :
          appended[i].txn_id = FormatTxnId(localtime(accepted[i].now_id), i)
    \* The two formats keep different sequence numbers apart under any pair of
    \* clock readings, also where the number outgrows its five digits.
    /\ \A s1, s2 \in {7, 99999, 100000, 1234567} :
          \A t1, t2 \in TimeValues :
             s1 < s2 => FormatTxnId(localtime(t1), s1) # FormatTxnId(localtime(t2), s2)

\* The id format used for the k-th accepted sale: TRUE for the fallback.
IdFallback(k) == ~localtime(accepted[k].now_id).valid

\* Two ids both in the fallback format.
C4_Witness ==
    /\ Len(appended) = 2
    /\ IdFallback(1) /\ IdFallback(2)
    /\ Len(appended[1].txn_id) = 17
    /\ SubSeq(appended[1].txn_id, 1, 12) = SubSeq(appended[2].txn_id, 1, 12)

(* C5: the ledger is append-only: while the process runs tx_count never     *)
(* decreases and the record at every index below tx_count is the record      *)
(* appended there, unchanged in content and position, through every growth   *)
(* of the store (doubling or the fallback increment) far past its initial    *)
(* capacity.                                                                 *)
C5_LedgerAppendOnly ==
    [][ running' =>
          /\ tx_count' >= tx_count
          /\ \A i \in 0 .. (tx_count - 1) : transactions'[i] = transactions[i]
          /\ tx_count' = Len(appended')
          /\ \A i \in 0 .. (tx_count' - 1) : transactions'[i] = appended'[i + 1] ]_vars

\* More than ten times the initial capacity appended, the store grown by both
\* kinds of step (a capacity that is no power-of-two multiple of the initial).
C5_Witness ==
    /\ running
    /\ tx_count > 10 * INITIAL_TX_CAPACITY
    /\ tx_capacity = 11 * INITIAL_TX_CAPACITY
    /\ transactions[0] = appended[1]
    /\ transactions[tx_count - 1] = appended[tx_count]

\* Whether the local hour of a record's timestamp can be derived.
HourKnown(tx) == localtime(tx.timestamp).valid

(* C6, as claimed: at every observation point the sum of hour_amount over    *)
(* hours 0..23 and the sum of payment_mode_amount over the three modes both  *)
(* equal the sum of amount over the ledger, and the sum of hour_quantity     *)
(* over hours 0..23 equals the sum of quantity over the ledger.              *)
C6_EveryDimensionSumsToLedger ==
    running =>
        /\ SumOver(hour_amount, Hours) = LedgerAmount
        /\ SumOver(payment_mode_amount, PaymentModes) = LedgerAmount
        /\ SumOver(hour_quantity, Hours) = LedgerQuantity

(* C6, amended: the payment-mode amounts sum to the ledger's amount; the     *)
(* hour buckets sum to the amount and quantity of the ledger's records whose *)
(* local hour could be derived from their timestamp.                         *)
C6_HourSumsOverDerivableHours ==
    running =>
        /\ SumOver(payment_mode_amount, PaymentModes) = LedgerAmount
        /\ SumOver(hour_amount, Hours)
             = SumTo([i \in LedgerIndexes |->
                        IF HourKnown(transactions[i]) THEN transactions[i].amount ELSE 0],
                     tx_count)
        /\ SumOver(hour_quantity, Hours)
             = SumTo([i \in LedgerIndexes |->
                        IF HourKnown(transactions[i]) THEN transactions[i].quantity ELSE 0],
                     tx_count)

\* A record whose hour was derived beside one whose hour was not.
C6_Witness ==
    /\ running
    /\ tx_count = 2
    /\ HourKnown(transactions[0]) /\ ~HourKnown(transactions[1])
    /\ SumOver(hour_amount, Hours) = transactions[0].amount
    /\ SumOver(payment_mode_amount, PaymentModes) > SumOver(hour_amount, Hours)

(* C7: a sale passes the checks, and a record is appended, only for a pump   *)
(* whose status is Active when the sale is validated; an attempt on a pump   *)
(* set to Inactive or Maintenance is turned down and appends nothing until   *)
(* the pump is set back to Active.                                           *)
C7_SalesOnlyOnActivePumps ==
    [][ /\ Len(accepted') = Len(accepted) + 1 =>
             LET pidx == pump_index_by_id(pumps, accepted'[Len(accepted')].pump_id.v)
             IN  pidx >= 0 /\ pumps[pidx].status = PUMP_ACTIVE
        /\ tx_count' = tx_count + 1 =>
             LET pidx == pump_index_by_id(pumps, transactions'[tx_count].pump_id)
             IN  pidx >= 0 /\ pumps[pidx].status = PUMP_ACTIVE
        /\ out'[2] = "Selected pump is not active." =>
             /\ UNCHANGED <<core, history>>
             /\ \E i \in PumpIndexes : pumps[i].status # PUMP_ACTIVE ]_vars

\* A sale turned down on pump 1, under maintenance after it had sold.
C7_Witness ==
    /\ out = <<"process_sale", "Selected pump is not active.", <<>>>>
    /\ pumps[0].status = PUMP_MAINT
    /\ pumps[0].transactions_count = 1

\* The number of stock deductions made so far.
Deductions == SumOver([f \in FuelTypes |-> deducted[f][1]], FuelTypes)

\* The quantity of the records ever appended on fuel f.
AppendedQuantityOfFuel(f) ==
    SumTo([i \in 0 .. (Len(appended) - 1) |->
             IF appended[i + 1].fuel_type = f THEN appended[i + 1].quantity ELSE 0],
          Len(appended))

(* C8: between operations every stock deduction is matched by exactly one    *)
(* appended record and one update of the aggregates for it; the one state    *)
(* with a deduction that has no record and no aggregate is the terminated    *)
(* state a failed expansion of the store leaves, so the aggregates are       *)
(* updated only after the deduction and the append.                          *)
C8_SaleAllOrNothing ==
    /\ \A f \in FuelTypes :
          /\ fuels[f].opening_stock + supplied[f][2] - fuels[f].current_stock = deducted[f][2]
          /\ fuel_wise_quantity[f] = AppendedQuantityOfFuel(f)
    /\ SumOver([i \in PumpIndexes |-> pumps[i].transactions_count], PumpIndexes) = Len(appended)
    /\ running =>
          /\ Deductions = tx_count
          /\ tx_count = Len(appended)
          /\ \A f \in FuelTypes : deducted[f][2] = LedgerQuantityOfFuel(f)
    /\ Deductions # Len(appended) =>
          /\ ~running
          /\ exit_status = EXIT_FAILURE
          /\ Deductions = Len(appended) + 1
          /\ out[2] = "Critical: transaction storage expansion failed. Exiting."

\* The terminated state after the store failed to grow: one deduction more
\* than there are records.
C8_Witness ==
    /\ ~running
    /\ exit_status = EXIT_FAILURE
    /\ Deductions = Len(appended) + 1
    /\ Len(appended) = 2 * INITIAL_TX_CAPACITY
    /\ fuels[FUEL_PETROL].current_stock = OPEN_PETROL - deducted[FUEL_PETROL][2]

(* C9, as claimed: the listing shows the ledger's records in insertion       *)
(* order, the first record appended first and the most recent one last.      *)
C9_ListedInInsertionOrder ==
    (out[1] = "list_transactions" /\ tx_count > 0) =>
        /\ out[3][1] = ListedRow(transactions[0])
        /\ out[3][Len(out[3])] = ListedRow(transactions[tx_count - 1])

(* C9, amended: the listing shows every record of the ledger once, most      *)
(* recent first: row k is the record at index tx_count - k, so the first row *)
(* is the most recently appended record and the last row the first one.      *)
C9_ListedMostRecentFirst ==
    out[1] = "list_transactions" =>
        /\ Len(out[3]) = tx_count
        /\ \A k \in 1 .. tx_count : out[3][k] = ListedRow(appended[tx_count - k + 1])
        /\ tx_count > 0 =>
             /\ out[3][1] = ListedRow(transactions[tx_count - 1])
             /\ out[3][tx_count] = ListedRow(transactions[0])

\* A listing of two different records.
C9_Witness ==
    /\ out[1] = "list_transactions"
    /\ Len(out[3]) = 2
    /\ out[3][1] # out[3][2]
    /\ out[3][2] = ListedRow(appended[1])

(* C10: an accepted quantity-mode sale of quantity q on an Active pump p     *)
(* bills q times the unit price of p's fuel, takes exactly q from that       *)
(* fuel's stock, adds 1, q and the amount to p's three counters, appends one *)
(* record, and leaves the other fuels' stock and the other pumps alone:      *)
(* 100 L of petrol at 102.50 from a stock of 50000 gives 10250.00, 49900.    *)
C10_AcceptedQuantitySale ==
    [][ (Len(accepted') = Len(accepted) + 1 /\ running'
           /\ accepted'[Len(accepted')].mode.v = 0) =>
          LET in == accepted'[Len(accepted')]
              q == in.value.v
              pidx == pump_index_by_id(pumps, in.pump_id.v)
              f == pumps[pidx].fuel_type
              tx == transactions'[tx_count]
          IN  /\ pumps[pidx].status = PUMP_ACTIVE
              /\ tx.pump_id = in.pump_id.v /\ tx.fuel_type = f /\ tx.quantity = q
              /\ tx.amount = q * fuels[f].price
              /\ fuels'[f].current_stock = fuels[f].current_stock - q
              /\ pumps'[pidx].transactions_count = pumps[pidx].transactions_count + 1
              /\ pumps'[pidx].total_quantity = pumps[pidx].total_quantity + q
              /\ pumps'[pidx].total_amount = pumps[pidx].total_amount + tx.amount
              /\ tx_count' = tx_count + 1
              /\ \A i \in 0 .. (tx_count - 1) : transactions'[i] = transactions[i]
              /\ \A g \in FuelTypes \ {f} : fuels'[g] = fuels[g]
              /\ \A j \in PumpIndexes \ {pidx} : pumps'[j] = pumps[j]
              /\ (q = 100 /\ f = FUEL_PETROL /\ fuels[f].current_stock = 50000) =>
                    /\ 4 * 10250 = tx.amount
                    /\ fuels'[f].current_stock = 49900 ]_vars

\* The receipt of 100 L of petrol sold from the full stock on a fresh pump 1.
C10_Witness ==
    /\ out[2] = "FUEL RECEIPT"
    /\ out[3][1].quantity = 100 /\ out[3][1].amount = 4 * 10250
    /\ out[3][1].pump_id = 1
    /\ accepted[Len(accepted)].mode.v = 0
    /\ fuels[FUEL_PETROL].current_stock = 49900
    /\ pumps[0].transactions_count = 1
    /\ tx_count = 1

\* The quantity a sale input asks for on a pump of fuel f: the quantity
\* entered, or the quantity the amount entered buys.
RequestedQuantity(in, f) ==
    IF in.mode.v = 0 THEN in.value.v ELSE in.value.v \div fuels[f].price

\* A sale input that gets as far as the stock check of line 371 in this state.
ReachesStockCheck(in) ==
    LET pidx == pump_index_by_id(pumps, in.pump_id.v)
    IN  /\ in.pump_id.n = 1 /\ pidx >= 0
        /\ pumps[pidx].status = PUMP_ACTIVE
        /\ in.vchoice.n = 1 /\ in.vchoice.v \in 0 .. 2
        /\ in.mode.n = 1 /\ in.mode.v \in 0 .. 1
        /\ in.value.n = 1 /\ in.value.v > 0

(* C11: a sale that reaches the stock check is turned down there exactly     *)
(* when its quantity is strictly greater than the current stock of the       *)
(* pump's fuel; a sale for the whole stock is accepted and leaves the stock  *)
(* at exactly 0, and from a stock of 0 no record on that fuel is appended    *)
(* and the stock stays 0 until a supply addition.                            *)
C11_RejectedIffAboveStock ==
    [][ /\ \A in \in SaleInputs, ra \in ReallocOutcomesAt(tx_count, tx_capacity) :
             (ReachesStockCheck(in) /\ process_sale(in, ra)) =>
                LET f == pumps[pump_index_by_id(pumps, in.pump_id.v)].fuel_type
                    q == RequestedQuantity(in, f)
                IN  /\ out'[2] = "Insufficient stock." <=> q > fuels[f].current_stock
                    /\ q > fuels[f].current_stock => UNCHANGED <<core, history>>
                    /\ (q = fuels[f].current_stock /\ in.paychoice.n = 1
                          /\ in.paychoice.v \in PaymentModes) =>
                          /\ fuels'[f].current_stock = 0
                          /\ tx_count' = tx_count + 1
                          /\ transactions'[tx_count].quantity = q
        /\ \A f \in FuelTypes :
             fuels[f].current_stock = 0 =>
                /\ tx_count' = tx_count + 1 => transactions'[tx_count].fuel_type # f
                /\ fuels'[f].current_stock # 0 => supplied'[f][1] = supplied[f][1] + 1
                /\ out'[2] = "FUEL RECEIPT" => out'[3][1].fuel_type # f ]_vars

\* The whole CNG stock sold in one sale, and the next sale on CNG turned down.
C11_Witness ==
    /\ out = <<"process_sale", "Insufficient stock.", <<>>>>
    /\ fuels[FUEL_CNG].current_stock = 0
    /\ supplied[FUEL_CNG][1] = 0
    /\ tx_count = 1
    /\ transactions[0].fuel_type = FUEL_CNG
    /\ transactions[0].quantity = fuels[FUEL_CNG].opening_stock

\* A supply input add_supply accepts: a fuel selector in 0..2 and a quantity
\* above 0, both read by scanf.
SupplyAccepted(in) ==
    /\ in[1].n = 1 /\ in[1].v \in FuelTypes
    /\ in[2].n = 1 /\ in[2].v > 0

(* C12: a supply addition with a fuel selector in 0..2 and a quantity q > 0  *)
(* adds exactly q to that fuel's current_stock, above the opening stock too, *)
(* and changes nothing else (opening and closing stock, price, the other     *)
(* fuels, pumps, ledger, accumulators); one with q <= 0, a selector outside  *)
(* the three fuels or an unread input changes no state at all.               *)
C12_SupplyAddsOnlyToItsFuel ==
    [][ \A in \in OpsSupplyInputs :
          add_supply(in[1], in[2]) =>
             IF SupplyAccepted(in)
             THEN /\ fuels'[in[1].v].current_stock = fuels[in[1].v].current_stock + in[2].v
                  /\ fuels' = [fuels EXCEPT ![in[1].v].current_stock = @ + in[2].v]
                  /\ out'[2] = "Supply added."
                  /\ UNCHANGED <<pumps, store, aggregates, txn_sequence, running, exit_status>>
             ELSE /\ UNCHANGED <<core, history>>
                  /\ out'[2] \in {"Invalid.", "Invalid quantity."} ]_vars

\* Supplies added to two fuels with untouched stocks, which now stand above
\* their opening levels.
C12_Witness ==
    /\ out = <<"add_supply", "Supply added.", <<>>>>
    /\ supplied[FUEL_CNG] = <<1, OPEN_CNG>>
    /\ supplied[FUEL_DIESEL] = <<1, 500>>
    /\ fuels[FUEL_CNG].current_stock = OPEN_CNG + OPEN_CNG
    /\ fuels[FUEL_DIESEL].current_stock = OPEN_DIESEL + 500
    /\ fuels[FUEL_PETROL].current_stock = OPEN_PETROL
    /\ tx_count = 0

\* A status input change_pump_status accepts: the id of one of the pumps and a
\* status in 0..2, both read by scanf.
StatusAccepted(in) ==
    /\ in[1].n = 1 /\ pump_index_by_id(pumps, in[1].v) >= 0
    /\ in[2].n = 1 /\ in[2].v \in {PUMP_ACTIVE, PUMP_INACTIVE, PUMP_MAINT}

(* C13: for a known pump id each of the three statuses can be set whatever   *)
(* the pump's status is (the same one included); the change touches only     *)
(* that pump's status field, leaving its counters, the other pumps, stocks,  *)
(* ledger and accumulators alone; a request for an unknown pump id, or with  *)
(* an unread or out-of-range input, changes nothing.                         *)
C13_StatusSetUnconditionally ==
    /\ [](running =>
            \A pid \in {1, PUMP_COUNT}, st \in {PUMP_ACTIVE, PUMP_INACTIVE, PUMP_MAINT} :
               ENABLED (/\ change_pump_status(Scanned(pid), Scanned(st))
                        /\ pumps'[pump_index_by_id(pumps, pid)].status = st
                        /\ out'[2] = "Pump status set."))
    /\ [][ \A in \in OpsStatusInputs :
             change_pump_status(in[1], in[2]) =>
                IF StatusAccepted(in)
                THEN /\ pumps' = [pumps EXCEPT
                                    ![pump_index_by_id(pumps, in[1].v)].status = in[2].v]
                     /\ out'[2] = "Pump status set."
                     /\ UNCHANGED <<fuels, store, aggregates, txn_sequence, running,
                                    exit_status, history>>
                ELSE /\ UNCHANGED <<core, history>>
                     /\ out'[2] \in {"Invalid.", "Invalid pump id."} ]_vars

\* The first pump switched off after a sale and the last one under
\* maintenance: both keep their counters.
C13_Witness ==
    /\ out = <<"change_pump_status", "Pump status set.", <<>>>>
    /\ pumps[0].status = PUMP_INACTIVE
    /\ pumps[0].transactions_count = 1
    /\ pumps[PUMP_COUNT - 1].status = PUMP_MAINT
    /\ \A i \in 1 .. (PUMP_COUNT - 2) : pumps[i] = InitPump(i)

(* C14: generating the daily report sets every fuel's closing_stock to its   *)
(* current_stock at the call and changes nothing else; a second report with  *)
(* no operation in between leaves the state as the first left it; a report   *)
(* after a later sale or supply addition shows the new current stock, not    *)
(* the close taken before.                                                   *)
C14_ReportSnapshotsClosingStock ==
    [][ out'[1] = "generate_daily_report" =>
          /\ \A f \in FuelTypes : fuels'[f].closing_stock = fuels[f].current_stock
          /\ fuels' = [f \in FuelTypes |->
                         [fuels[f] EXCEPT !.closing_stock = fuels[f].current_stock]]
          /\ UNCHANGED <<pumps, store, aggregates, txn_sequence, running, exit_status,
                         history>>
          /\ out[1] = "generate_daily_report" => UNCHANGED vars ]_vars

\* A report taken after a sale and a supply addition on petrol, where an
\* earlier close was no longer the current stock.
C14_Witness ==
    /\ out[1] = "generate_daily_report"
    /\ tx_count = 1
    /\ supplied[FUEL_PETROL] = <<1, 500>>
    /\ fuels[FUEL_PETROL].current_stock = OPEN_PETROL - 100 + 500
    /\ fuels[FUEL_PETROL].closing_stock = fuels[FUEL_PETROL].current_stock
    /\ fuels[FUEL_PETROL].closing_stock # fuels[FUEL_PETROL].opening_stock

(* C15: an append that finds the ledger full (tx_count = tx_capacity) leaves *)
(* twice the capacity if the doubling realloc succeeds, the capacity plus 50 *)
(* if it fails and the fallback realloc succeeds, and only if both fail      *)
(* frees the ledger and exits with a failure status, the stock of that sale  *)
(* deducted and not restored, no record appended and no accumulator          *)
(* updated; an append to a ledger that is not full keeps the capacity.       *)
C15_GrowthDoublingThenFallbackThenFatal ==
    [][ \A in \in GrowSaleInputs, ra \in ReallocOutcomesAt(tx_count, tx_capacity) :
          (process_sale(in, ra) /\ Len(accepted') = Len(accepted) + 1) =>
             LET f == pumps[pump_index_by_id(pumps, in.pump_id.v)].fuel_type
                 survives == /\ running' /\ tx_count' = tx_count + 1
                             /\ transactions'[tx_count].quantity = in.value.v
             IN  IF tx_count < tx_capacity
                 THEN survives /\ tx_capacity' = tx_capacity
                 ELSE IF ra.doubling
                 THEN survives /\ tx_capacity' = 2 * tx_capacity
                 ELSE IF ra.fallback
                 THEN survives /\ tx_capacity' = tx_capacity + 50
                 ELSE /\ ~running' /\ exit_status' # EXIT_SUCCESS
                      /\ transactions' = <<>> /\ tx_capacity' = 0 /\ tx_count' = 0
                      /\ fuels'[f].current_stock = fuels[f].current_stock - in.value.v
                      /\ UNCHANGED <<pumps, aggregates, appended>>
                      /\ out'[2] = "Critical: transaction storage expansion failed. Exiting." ]_vars

\* The process ended by a third expansion that failed, after one by doubling
\* (50 to 100) and one by the fallback increment (100 to 150).
C15_Witness ==
    /\ ~running
    /\ exit_status = EXIT_FAILURE
    /\ transactions = <<>>
    /\ Len(appended) = 3 * INITIAL_TX_CAPACITY
    /\ deducted[FUEL_PETROL][1] = 3 * INITIAL_TX_CAPACITY + 1
    /\ pumps[0].transactions_count = 3 * INITIAL_TX_CAPACITY

(* C16: recording a committed sale whose timestamp has no derivable local    *)
(* hour changes no hour bucket, yet appends the record and adds its quantity *)
(* and amount to its fuel's two accumulators, its amount to its payment      *)
(* mode and 1, quantity and amount to its pump's counters; when the hour is  *)
(* derivable, exactly one hour bucket, that hour in 0..23, gains the         *)
(* record's quantity and amount.                                             *)
C16_HourBucketSkippedWhenUnknown ==
    [][ tx_count' = tx_count + 1 =>
          LET tx == transactions'[tx_count]
              pidx == pump_index_by_id(pumps, tx.pump_id)
              lt == localtime(tx.timestamp)
          IN  /\ tx = appended'[Len(appended')] /\ Len(appended') = Len(appended) + 1
              /\ tx.quantity > 0 /\ tx.amount > 0
              /\ fuel_wise_quantity' =
                    [fuel_wise_quantity EXCEPT ![tx.fuel_type] = @ + tx.quantity]
              /\ fuel_wise_amount' = [fuel_wise_amount EXCEPT ![tx.fuel_type] = @ + tx.amount]
              /\ payment_mode_amount' =
                    [payment_mode_amount EXCEPT ![tx.payment_mode] = @ + tx.amount]
              /\ pumps' = [pumps EXCEPT ![pidx].transactions_count = @ + 1,
                                        ![pidx].total_quantity = @ + tx.quantity,
                                        ![pidx].total_amount = @ + tx.amount]
              /\ IF lt.valid
                 THEN /\ lt.tm_hour \in Hours
                      /\ hour_quantity' = [hour_quantity EXCEPT ![lt.tm_hour] = @ + tx.quantity]
                      /\ hour_amount' = [hour_amount EXCEPT ![lt.tm_hour] = @ + tx.amount]
                      /\ Cardinality({h \in Hours : hour_quantity'[h] # hour_quantity[h]}) = 1
                      /\ Cardinality({h \in Hours : hour_amount'[h] # hour_amount[h]}) = 1
                 ELSE UNCHANGED <<hour_quantity, hour_amount>> ]_vars

\* The receipt of a first sale stamped with a time localtime cannot break
\* down: every hour bucket is still empty, the other accumulators are not.
C16_Witness ==
    /\ out[2] = "FUEL RECEIPT"
    /\ tx_count = 1
    /\ ~localtime(transactions[0].timestamp).valid
    /\ \A h \in Hours : hour_quantity[h] = 0 /\ hour_amount[h] = 0
    /\ fuel_wise_quantity[transactions[0].fuel_type] = transactions[0].quantity
    /\ payment_mode_amount[transactions[0].payment_mode] = transactions[0].amount
    /\ transactions[0].amount > 0
    /\ \E i \in PumpIndexes : pumps[i].transactions_count = 1

\* The sum of the field val over the ledger's records whose field key is k,
\* and the number of those records.
LedgerSumWhere(key, k, val) ==
    SumTo([i \in LedgerIndexes |->
             IF transactions[i][key] = k THEN transactions[i][val] ELSE 0], tx_count)
LedgerCountWhere(key, k) ==
    SumTo([i \in LedgerIndexes |-> IF transactions[i][key] = k THEN 1 ELSE 0], tx_count)

(* C17: while the process runs every accumulator bucket equals the ledger    *)
(* filtered by its key: fuel_wise_quantity[f] and fuel_wise_amount[f] are    *)
(* the quantity and amount sums of the records of fuel f,                    *)
(* payment_mode_amount[m] the amount sum of the records paid by m, and each  *)
(* pump's transactions_count, total_quantity and total_amount the number,    *)
(* quantity sum and amount sum of the records with its id; the pumps'        *)
(* counts sum to tx_count.                                                   *)
C17_BucketsEqualFilteredLedger ==
    running =>
        /\ \A f \in FuelTypes :
              /\ fuel_wise_quantity[f] = LedgerSumWhere("fuel_type", f, "quantity")
              /\ fuel_wise_amount[f] = LedgerSumWhere("fuel_type", f, "amount")
        /\ \A m \in PaymentModes :
              payment_mode_amount[m] = LedgerSumWhere("payment_mode", m, "amount")
        /\ \A i \in PumpIndexes :
              /\ pumps[i].transactions_count = LedgerCountWhere("pump_id", pumps[i].pump_id)
              /\ pumps[i].total_quantity = LedgerSumWhere("pump_id", pumps[i].pump_id, "quantity")
              /\ pumps[i].total_amount = LedgerSumWhere("pump_id", pumps[i].pump_id, "amount")
        /\ SumOver([i \in PumpIndexes |-> pumps[i].transactions_count], PumpIndexes) = tx_count

\* Two sales on the same fuel from different pumps, paid by card and by cash.
C17_Witness ==
    /\ running
    /\ tx_count = 2
    /\ transactions[0].pump_id # transactions[1].pump_id
    /\ transactions[0].fuel_type = transactions[1].fuel_type
    /\ payment_mode_amount[PAY_CARD] > 0 /\ payment_mode_amount[PAY_CASH] > 0
    /\ payment_mode_amount[PAY_WALLET] = 0
    /\ fuel_wise_quantity[FUEL_PETROL] = transactions[0].quantity + transactions[1].quantity

\* The three cumulative counters of a pump.
Counters(p) == <<p.transactions_count, p.total_quantity, p.total_amount>>

(* C18: no pump's transactions_count, total_quantity or total_amount ever    *)
(* decreases; they change only in an accepted sale on that pump, which       *)
(* strictly increases all three; status changes (out of service and back),   *)
(* supply additions, reports, listings and rejected sales leave them alone.  *)
C18_PumpCountersOnlyGrow ==
    [][ \A i \in PumpIndexes :
          LET sold == /\ tx_count' = tx_count + 1
                      /\ transactions'[tx_count].pump_id = pumps[i].pump_id
          IN  /\ \A k \in 1 .. 3 : Counters(pumps'[i])[k] >= Counters(pumps[i])[k]
              /\ Counters(pumps'[i]) # Counters(pumps[i]) => sold
              /\ sold => \A k \in 1 .. 3 : Counters(pumps'[i])[k] > Counters(pumps[i])[k]
              /\ out'[1] # "process_sale" => Counters(pumps'[i]) = Counters(pumps[i])
              /\ out'[2] \in SaleRejections => Counters(pumps'[i]) = Counters(pumps[i]) ]_vars

\* The first pump switched off after two sales, with a supply added: its
\* counters stand where the sales left them.
C18_Witness ==
    /\ out = <<"change_pump_status", "Pump status set.", <<>>>>
    /\ pumps[0].status = PUMP_INACTIVE
    /\ Counters(pumps[0]) = <<2, 200, 200 * PRICE_PETROL>>
    /\ supplied[FUEL_CNG][1] = 1

(* C19: after startup no operation (sale, supply addition, status change,    *)
(* report, listing, exit) changes a fuel's unit price, opening_stock or      *)
(* type, or a pump's id or assigned fuel type: they stay as                  *)
(* initialize_system set them.                                               *)
C19_StartupFieldsImmutable ==
    /\ [](/\ \A f \in FuelTypes :
               /\ fuels[f].type = f
               /\ fuels[f].price = (CASE f = FUEL_PETROL -> PRICE_PETROL
                                      [] f = FUEL_DIESEL -> PRICE_DIESEL
                                      [] f = FUEL_CNG -> PRICE_CNG)
               /\ fuels[f].opening_stock = (CASE f = FUEL_PETROL -> OPEN_PETROL
                                              [] f = FUEL_DIESEL -> OPEN_DIESEL
                                              [] f = FUEL_CNG -> OPEN_CNG)
          /\ \A i \in PumpIndexes :
               /\ pumps[i].pump_id = i + 1
               /\ pumps[i].fuel_type = InitPump(i).fuel_type)
    /\ [][ /\ \A f \in FuelTypes :
                /\ fuels'[f].price = fuels[f].price
                /\ fuels'[f].opening_stock = fuels[f].opening_stock
                /\ fuels'[f].type = fuels[f].type
           /\ \A i \in PumpIndexes :
                /\ pumps'[i].pump_id = pumps[i].pump_id
                /\ pumps'[i].fuel_type = pumps[i].fuel_type ]_vars

\* A listing asked for after two sales, a supply addition, a status change
\* and a report taken when the petrol stock was below its opening level.
C19_Witness ==
    /\ out[1] = "list_transactions"
    /\ tx_count = 2
    /\ supplied[FUEL_CNG][1] = 1
    /\ pumps[0].status = PUMP_MAINT
    /\ fuels[FUEL_PETROL].closing_stock < fuels[FUEL_PETROL].opening_stock
    /\ fuels[FUEL_PETROL].price = PRICE_PETROL
    /\ fuels[FUEL_PETROL].opening_stock = OPEN_PETROL

\* The pumps assigned to fuel f.
PumpsOfFuel(f) == {i \in PumpIndexes : pumps[i].fuel_type = f}

(* C20: every record of the ledger carries the fuel type of the pump it      *)
(* names; so for each fuel f the total_quantity and total_amount of the      *)
(* pumps assigned to f sum to fuel_wise_quantity[f] and fuel_wise_amount[f]; *)
(* and the stock a sale deducts is the stock of the fuel its record carries, *)
(* no other.                                                                 *)
C20_RecordFuelIsPumpFuel ==
    /\ [](/\ \A i \in LedgerIndexes :
               LET pidx == pump_index_by_id(pumps, transactions[i].pump_id)
               IN  pidx >= 0 /\ transactions[i].fuel_type = pumps[pidx].fuel_type
          /\ \A f \in FuelTypes :
               /\ SumOver([i \in PumpIndexes |-> pumps[i].total_quantity], PumpsOfFuel(f))
                    = fuel_wise_quantity[f]
               /\ SumOver([i \in PumpIndexes |-> pumps[i].total_amount], PumpsOfFuel(f))
                    = fuel_wise_amount[f])
    /\ [][ tx_count' = tx_count + 1 =>
             LET tx == transactions'[tx_count]
             IN  /\ tx.fuel_type \in FuelTypes
                 /\ fuels' = [fuels EXCEPT ![tx.fuel_type].current_stock = @ - tx.quantity]
                 /\ deducted' = [deducted EXCEPT ![tx.fuel_type] =
                                   <<@[1] + 1, @[2] + tx.quantity>>] ]_vars

\* A diesel sale and a CNG sale by drivers of other vehicle types: each
\* stock is down by its own record's quantity, the petrol stock untouched.
C20_Witness ==
    /\ running
    /\ tx_count = 2
    /\ {transactions[0].fuel_type, transactions[1].fuel_type} = {FUEL_DIESEL, FUEL_CNG}
    /\ \A i \in LedgerIndexes : transactions[i].vehicle_type # transactions[i].fuel_type
    /\ fuels[FUEL_PETROL].current_stock = OPEN_PETROL
    /\ fuels[FUEL_DIESEL].current_stock = OPEN_DIESEL - fuel_wise_quantity[FUEL_DIESEL]
    /\ fuels[FUEL_CNG].current_stock = 0
    /\ supplied[FUEL_CNG][1] = 0

\* The number a digit character stands for.
DigitValue(c) == CHOOSE d \in 0 .. 9 : DigitChars[d + 1] = c

RECURSIVE ParseDecimal(_)
\* The number a sequence of digit characters writes.
ParseDecimal(s) ==
    IF Len(s) = 0 THEN 0
    ELSE 10 * ParseDecimal(SubSeq(s, 1, Len(s) - 1)) + DigitValue(s[Len(s)])

\* The sequence number an id carries: its last five characters, in both
\* formats, for sequence numbers of up to five digits.
SequenceOfId(id) == ParseDecimal(SubSeq(id, Len(id) - 4, Len(id)))

(* C21: while the process runs txn_sequence equals tx_count and the record   *)
(* at index i carries sequence number i + 1 in its id; txn_sequence never    *)
(* decreases and is never reset, not even at exit; it advances by one, and   *)
(* only in a sale that passed every check; a rejected sale attempt and the   *)
(* other handlers leave it alone.                                            *)
C21_SequenceCountsCommittedSales ==
    /\ [](running =>
            /\ txn_sequence = tx_count
            /\ \A i \in LedgerIndexes : SequenceOfId(transactions[i].txn_id) = i + 1)
    /\ [][ /\ txn_sequence' >= txn_sequence
           /\ txn_sequence' # txn_sequence =>
                /\ txn_sequence' = txn_sequence + 1
                /\ out'[1] = "process_sale"
                /\ Len(accepted') = Len(accepted) + 1
                /\ running' => tx_count' = tx_count + 1
           /\ out'[2] \in SaleRejections => txn_sequence' = txn_sequence
           /\ out'[1] # "process_sale" => txn_sequence' = txn_sequence ]_vars

\* A sale turned down after two sales, the first with an id in the fallback
\* format and a timestamp later than the second's.
C21_Witness ==
    /\ running
    /\ out[1] = "process_sale" /\ out[2] \in SaleRejections
    /\ tx_count = 2 /\ txn_sequence = 2
    /\ Len(transactions[0].txn_id) = 17 /\ Len(transactions[1].txn_id) = 18
    /\ transactions[0].timestamp > transactions[1].timestamp
    /\ SequenceOfId(transactions[1].txn_id) = 2

(* C22: while the process runs tx_count never exceeds tx_capacity, the store *)
(* holds exactly tx_capacity slots, and tx_capacity is at least the initial  *)
(* 50 and never decreases; every append writes at an index strictly below    *)
(* the capacity of the store it writes to; tx_capacity changes only inside   *)
(* an append that found the ledger full.                                     *)
C22_CountWithinCapacity ==
    /\ [](running =>
            /\ tx_count <= tx_capacity
            /\ tx_capacity >= 50
            /\ DOMAIN transactions = 0 .. (tx_capacity - 1))
    /\ [][ running' =>
             /\ tx_capacity' >= tx_capacity
             /\ tx_capacity' # tx_capacity =>
                   /\ tx_count = tx_capacity
                   /\ tx_count' = tx_count + 1
                   /\ out'[1] = "process_sale"
             /\ tx_count' # tx_count =>
                   /\ tx_count' = tx_count + 1
                   /\ tx_count < tx_capacity'
                   /\ tx_count \in DOMAIN transactions'
                   /\ transactions'[tx_count] = appended'[Len(appended')]
                   /\ tx_count < tx_capacity => tx_capacity' = tx_capacity ]_vars

\* The store full again at six times its initial capacity, after several
\* growth steps, its last slot holding the last record appended.
C22_Witness ==
    /\ running
    /\ tx_capacity = 6 * INITIAL_TX_CAPACITY
    /\ tx_count = tx_capacity
    /\ transactions[tx_capacity - 1] = appended[tx_capacity]

=============================================================================
